---- MODULE Spec2Model ----
(***************************************************************************)
(* The session state registry of cnd (pkg/storage/storage.go) and the part *)
(* of the manifest model (pkg/model/dev.go) it depends on.                 *)
(*                                                                         *)
(* Representation.                                                         *)
(*   - A Go string that takes part in string building (namespace,          *)
(*     deployment name, container, session key, syncthing host) is a       *)
(*     sequence of one-character strings; "" is <<>>.                      *)
(*   - A file system path is [abs, segs]: whether it starts with "/" and   *)
(*     its "/"-separated segments.  The empty path "" is [FALSE, <<>>],    *)
(*     "." is [FALSE, <<".">>], "/" is [TRUE, <<>>].                       *)
(*   - The YAML text of the state file is a document that lists the keys   *)
(*     that are present: an optional value is a sequence of length 0 or 1. *)
(*                                                                         *)
(* Environment.  os.Getwd and ioutil.WriteFile are taken to succeed (the   *)
(* working directory exists, the cnd home is writable).  The state file    *)
(* may be absent, unreadable or malformed, which makes load fail.          *)
(***************************************************************************)
EXTENDS Naturals, Sequences, FiniteSets, TLC

(***************************************************************************)
(* Bounds of the model.                                                    *)
(***************************************************************************)
\* syncthing hosts are the strings "", "h", "hh", ... up to this length
MaxHost == 2
\* calls made in all by the concurrent invocations
MaxCalls == 3
\* length of a key component when getFullName is checked on its own
MaxLen == 2

Rep(c, n) == [i \in 1..n |-> c]

Namespaces == { <<"n">> }
Names == { <<"w">> }
\* the container may be left out of a manifest (omitempty): "" and "c"
Containers == { <<>>, <<"c">> }
Hosts == { Rep("h", i) : i \in 0..MaxHost }

(***************************************************************************)
(* Paths: path.Clean, path.Join, filepath.IsAbs.                           *)
(***************************************************************************)
Path(abs, segs) == [abs |-> abs, segs |-> segs]
EmptyPath == Path(FALSE, <<>>)

IsAbs(p) == p.abs

RECURSIVE CleanSegs(_, _, _)
CleanSegs(abs, segs, out) ==
  IF segs = <<>> THEN out
  ELSE LET h == Head(segs)
           t == Tail(segs)
       IN  IF h = "." THEN CleanSegs(abs, t, out)
           ELSE IF h = ".."
             THEN IF out # <<>> /\ out[Len(out)] # ".."
                    THEN CleanSegs(abs, t, SubSeq(out, 1, Len(out) - 1))
                    ELSE IF abs THEN CleanSegs(abs, t, out)
                                ELSE CleanSegs(abs, t, Append(out, ".."))
             ELSE CleanSegs(abs, t, Append(out, h))

Clean(p) ==
  LET segs == CleanSegs(p.abs, p.segs, <<>>)
  IN  IF ~p.abs /\ segs = <<>> THEN Path(FALSE, <<".">>) ELSE Path(p.abs, segs)

\* path.Join(a, b): empty elements are ignored, the rest joined by "/" and cleaned
Join(a, b) ==
  IF a = EmptyPath /\ b = EmptyPath THEN EmptyPath
  ELSE IF a = EmptyPath THEN Clean(b)
  ELSE Clean(Path(a.abs, a.segs \o b.segs))

\* dev.Mount.Source values handed to the registry: "./a", "/w/a"
Sources == { Path(FALSE, <<".", "a">>), Path(TRUE, <<"w", "a">>) }
\* results of os.Getwd: "/w", "/v"
WorkDirs == { Path(TRUE, <<"w">>), Path(TRUE, <<"v">>) }
NoDir == EmptyPath

(***************************************************************************)
(* model.Dev, as far as the registry reads it.                             *)
(***************************************************************************)
Dev(name, container, source) ==
  [Swap  |-> [Deployment |-> [Name |-> name, Container |-> container]],
   Mount |-> [Source |-> source]]

Devs == { Dev(nm, c, src) : nm \in Names, c \in Containers, src \in Sources }
\* Get, Stop and Delete read only the deployment name and the container
KeyDevs == { Dev(nm, c, Path(FALSE, <<".">>)) : nm \in Names, c \in Containers }

(***************************************************************************)
(* storage.go: constants, Storage, Service.                                *)
(***************************************************************************)
version == "1.0"
stPath == "~/.cnd/.state"
ErrNil == "nil"
ErrAlreadyRunning == "up-already-running"
ErrRead == "error reading the storage file"
ErrUnmarshal == "error unmarshalling the storage file"
ErrNotFound == "there aren't any active cloud native development environments available"

Service(folder, host) == [Folder |-> folder, Syncthing |-> host]
ZeroService == Service(EmptyPath, <<>>)
EmptyMap == << >>

Storage(p, v, services) == [path |-> p, Version |-> v, Services |-> services]

\* m[k] = v of a Go map
MapSet(m, k, v) == [x \in (DOMAIN m) \cup {k} |-> IF x = k THEN v ELSE m[x]]
\* delete(m, k) of a Go map
MapDelete(m, k) == [x \in (DOMAIN m) \ {k} |-> m[x]]

\* fmt.Sprintf("%s/%s/%s", namespace, name, container)
Sprintf3(a, b, c) == a \o <<"/">> \o b \o <<"/">> \o c

\* mutant: the container is left out of the key
getFullName_NoContainer(namespace, dev) ==
  Sprintf3(namespace, dev.Swap.Deployment.Name, <<>>)

getFullName(namespace, dev) ==
  Sprintf3(namespace, dev.Swap.Deployment.Name, dev.Swap.Deployment.Container)

\* storage.fixPath; wd is what os.Getwd returns
fixPath(originalPath, wd) ==
  IF IsAbs(originalPath) THEN originalPath ELSE Join(wd, originalPath)

\* mutant: the folder is stored as given, not resolved
newService_Unresolved(folder, host, wd) == Service(folder, host)

newService(folder, host, wd) == Service(fixPath(folder, wd), host)

(***************************************************************************)
(* yaml.Marshal and yaml.Unmarshal on Storage.  Every field is tagged      *)
(* omitempty: a key is written only when its value is not the zero value;  *)
(* path is unexported and never written.                                   *)
(***************************************************************************)
Opt(present, v) == IF present THEN <<v>> ELSE <<>>

MarshalService(svc) ==
  [folder    |-> Opt(svc.Folder # EmptyPath, svc.Folder),
   syncthing |-> Opt(svc.Syncthing # <<>>, svc.Syncthing)]

\* mutant: omitempty drops a record whose handle is empty
Marshal_DropStopped(s) ==
  LET kept == { k \in DOMAIN s.Services : s.Services[k].Syncthing # <<>> }
  IN  [wellFormed |-> TRUE,
       version    |-> Opt(s.Version # "", s.Version),
       services   |-> Opt(kept # {},
                          [k \in kept |-> MarshalService(s.Services[k])])]

Marshal(s) ==
  [wellFormed |-> TRUE,
   version    |-> Opt(s.Version # "", s.Version),
   services   |-> Opt(DOMAIN s.Services # {},
                      [k \in DOMAIN s.Services |-> MarshalService(s.Services[k])])]

\* a map value is decoded into a fresh Service: absent keys keep the zero value
UnmarshalService(d) ==
  Service(IF d.folder = <<>> THEN EmptyPath ELSE d.folder[1],
          IF d.syncthing = <<>> THEN <<>> ELSE d.syncthing[1])

\* decoding into s: a key that is present overwrites the field, an absent key
\* leaves what s held; map entries are set in the map s already holds
Unmarshal(bytes, s) ==
  IF ~bytes.wellFormed THEN [s |-> s, err |-> ErrUnmarshal]
  ELSE
    LET v == IF bytes.version = <<>> THEN s.Version ELSE bytes.version[1]
        m == IF bytes.services = <<>> THEN s.Services
             ELSE LET d == bytes.services[1]
                  IN  [k \in (DOMAIN s.Services) \cup (DOMAIN d) |->
                         IF k \in DOMAIN d THEN UnmarshalService(d[k])
                         ELSE s.Services[k]]
    IN  [s |-> Storage(s.path, v, m), err |-> ErrNil]

(***************************************************************************)
(* The state file: whether it exists, whether it can be read, its text.    *)
(***************************************************************************)
EmptyDoc == [wellFormed |-> TRUE, version |-> <<>>, services |-> <<>>]
Garbage == [wellFormed |-> FALSE, version |-> <<>>, services |-> <<>>]
NoFile == [exists |-> FALSE, readable |-> TRUE, bytes |-> EmptyDoc]

\* mutant: a missing state file is reported as unreadable
load_MissingIsError(file) ==
  LET s == Storage(stPath, version, EmptyMap)
  IN  IF ~file.exists \/ ~file.readable THEN [s |-> s, err |-> ErrRead]
      ELSE Unmarshal(file.bytes, s)

load(file) ==
  LET s == Storage(stPath, version, EmptyMap)
  IN  IF ~file.exists THEN [s |-> s, err |-> ErrNil]
      ELSE IF ~file.readable THEN [s |-> s, err |-> ErrRead]
      ELSE Unmarshal(file.bytes, s)

\* (s *Storage) save: the file at s.path is overwritten, created when absent
save(s, file) ==
  [exists   |-> TRUE,
   readable |-> IF file.exists THEN file.readable ELSE TRUE,
   bytes    |-> Marshal(s)]

(***************************************************************************)
(* The operations after their load: what they do to the loaded Storage,    *)
(* the error they return and whether they call save.                       *)
(***************************************************************************)
Outcome(s, err, write) == [s |-> s, err |-> err, write |-> write]

\* mutant: an active record is overwritten instead of rejected
InsertBody_Overwrite(s, namespace, dev, host, wd) ==
  LET fullName == getFullName(namespace, dev)
      svc == newService(dev.Mount.Source, host, wd)
  IN  IF fullName \in DOMAIN s.Services /\ s.Services[fullName] = svc
        THEN Outcome(s, ErrNil, FALSE)
      ELSE Outcome([s EXCEPT !.Services = MapSet(s.Services, fullName, svc)],
                   ErrNil, TRUE)

\* mutant: the identical record is not recognised
InsertBody_NoShortcut(s, namespace, dev, host, wd) ==
  LET fullName == getFullName(namespace, dev)
      svc == newService(dev.Mount.Source, host, wd)
  IN  IF fullName \in DOMAIN s.Services
              /\ s.Services[fullName].Syncthing # <<>>
        THEN Outcome(s, ErrAlreadyRunning, FALSE)
      ELSE Outcome([s EXCEPT !.Services = MapSet(s.Services, fullName, svc)],
                   ErrNil, TRUE)

\* mutant: an active record is rejected only when its handle differs
InsertBody_HandleOnly(s, namespace, dev, host, wd) ==
  LET fullName == getFullName(namespace, dev)
      svc == newService(dev.Mount.Source, host, wd)
  IN  IF fullName \in DOMAIN s.Services /\ s.Services[fullName] = svc
        THEN Outcome(s, ErrNil, FALSE)
      ELSE IF fullName \in DOMAIN s.Services
              /\ s.Services[fullName].Syncthing # <<>>
              /\ s.Services[fullName].Syncthing # host
        THEN Outcome(s, ErrAlreadyRunning, FALSE)
      ELSE Outcome([s EXCEPT !.Services = MapSet(s.Services, fullName, svc)],
                   ErrNil, TRUE)

\* mutant: a stopped record must be deleted before the key is inserted again
InsertBody_RejectExisting(s, namespace, dev, host, wd) ==
  LET fullName == getFullName(namespace, dev)
      svc == newService(dev.Mount.Source, host, wd)
  IN  IF fullName \in DOMAIN s.Services /\ s.Services[fullName] = svc
        THEN Outcome(s, ErrNil, FALSE)
      ELSE IF fullName \in DOMAIN s.Services
        THEN Outcome(s, ErrAlreadyRunning, FALSE)
      ELSE Outcome([s EXCEPT !.Services = MapSet(s.Services, fullName, svc)],
                   ErrNil, TRUE)

\* mutant: an Insert with an empty handle overwrites an active record
InsertBody_EmptyHandleStops(s, namespace, dev, host, wd) ==
  LET fullName == getFullName(namespace, dev)
      svc == newService(dev.Mount.Source, host, wd)
  IN  IF fullName \in DOMAIN s.Services /\ s.Services[fullName] = svc
        THEN Outcome(s, ErrNil, FALSE)
      ELSE IF fullName \in DOMAIN s.Services
              /\ s.Services[fullName].Syncthing # <<>>
              /\ host # <<>>
        THEN Outcome(s, ErrAlreadyRunning, FALSE)
      ELSE Outcome([s EXCEPT !.Services = MapSet(s.Services, fullName, svc)],
                   ErrNil, TRUE)

InsertBody(s, namespace, dev, host, wd) ==
  LET fullName == getFullName(namespace, dev)
      svc == newService(dev.Mount.Source, host, wd)
  IN  IF fullName \in DOMAIN s.Services /\ s.Services[fullName] = svc
        THEN Outcome(s, ErrNil, FALSE)
      ELSE IF fullName \in DOMAIN s.Services
              /\ s.Services[fullName].Syncthing # <<>>
        THEN Outcome(s, ErrAlreadyRunning, FALSE)
      ELSE Outcome([s EXCEPT !.Services = MapSet(s.Services, fullName, svc)],
                   ErrNil, TRUE)

GetBody(s, namespace, dev) ==
  LET fullName == getFullName(namespace, dev)
  IN  IF fullName \notin DOMAIN s.Services
        THEN [svc |-> <<>>, err |-> ErrNotFound]
        ELSE [svc |-> <<s.Services[fullName]>>, err |-> ErrNil]

\* mutant: the record is replaced by the zero Service, losing its folder
StopBody_ZeroRecord(s, namespace, dev) ==
  LET fullName == getFullName(namespace, dev)
  IN  IF fullName \in DOMAIN s.Services
        THEN Outcome([s EXCEPT !.Services = MapSet(s.Services, fullName, ZeroService)],
                     ErrNil, TRUE)
        ELSE Outcome(s, ErrNil, FALSE)

\* mutant: Stop saves also when the key has no record
StopBody_AlwaysSave(s, namespace, dev) ==
  LET fullName == getFullName(namespace, dev)
  IN  IF fullName \in DOMAIN s.Services
        THEN LET svc == [s.Services[fullName] EXCEPT !.Syncthing = <<>>]
             IN  Outcome([s EXCEPT !.Services = MapSet(s.Services, fullName, svc)],
                         ErrNil, TRUE)
        ELSE Outcome(s, ErrNil, TRUE)

StopBody(s, namespace, dev) ==
  LET fullName == getFullName(namespace, dev)
  IN  IF fullName \in DOMAIN s.Services
        THEN LET svc == [s.Services[fullName] EXCEPT !.Syncthing = <<>>]
             IN  Outcome([s EXCEPT !.Services = MapSet(s.Services, fullName, svc)],
                         ErrNil, TRUE)
        ELSE Outcome(s, ErrNil, FALSE)

\* mutant: an active record is not deleted
DeleteBody_OnlyStopped(s, namespace, dev) ==
  LET fullName == getFullName(namespace, dev)
  IN  IF fullName \in DOMAIN s.Services /\ s.Services[fullName].Syncthing # <<>>
        THEN Outcome(s, ErrNil, FALSE)
        ELSE Outcome([s EXCEPT !.Services = MapDelete(s.Services, fullName)],
                     ErrNil, TRUE)

DeleteBody(s, namespace, dev) ==
  LET fullName == getFullName(namespace, dev)
  IN  Outcome([s EXCEPT !.Services = MapDelete(s.Services, fullName)],
              ErrNil, TRUE)

\* the file an operation leaves behind
Written(o, file) == IF o.write THEN save(o.s, file) ELSE file

(***************************************************************************)
(* The operations as one call each: load, body, save.                      *)
(***************************************************************************)
Result(file, err) == [file |-> file, err |-> err]

InsertCall(file, namespace, dev, host, wd) ==
  LET l == load(file)
  IN  IF l.err # ErrNil THEN Result(file, l.err)
      ELSE LET o == InsertBody(l.s, namespace, dev, host, wd)
           IN  Result(Written(o, file), o.err)

GetCall(file, namespace, dev) ==
  LET l == load(file)
  IN  IF l.err # ErrNil THEN [svc |-> <<>>, err |-> l.err]
      ELSE GetBody(l.s, namespace, dev)

StopCall(file, namespace, dev) ==
  LET l == load(file)
  IN  IF l.err # ErrNil THEN Result(file, l.err)
      ELSE LET o == StopBody(l.s, namespace, dev)
           IN  Result(Written(o, file), o.err)

\* mutant: Delete carries on with an empty Storage when load fails
DeleteCall_IgnoreLoadError(file, namespace, dev) ==
  LET l == load(file)
      o == DeleteBody(l.s, namespace, dev)
  IN  Result(Written(o, file), o.err)

DeleteCall(file, namespace, dev) ==
  LET l == load(file)
  IN  IF l.err # ErrNil THEN Result(file, l.err)
      ELSE LET o == DeleteBody(l.s, namespace, dev)
           IN  Result(Written(o, file), o.err)

\* mutant: All leaves the stopped records out
AllCall_OnlyActive(file) ==
  LET l == load(file)
  IN  IF l.err # ErrNil THEN <<>>
      ELSE <<[k \in {j \in DOMAIN l.s.Services : l.s.Services[j].Syncthing # <<>>}
                |-> l.s.Services[k]]>>

\* All returns nil (here <<>>) when load fails, else the map (here <<map>>)
AllCall(file) ==
  LET l == load(file)
  IN  IF l.err # ErrNil THEN <<>> ELSE <<l.s.Services>>

(***************************************************************************)
(* dev.go: ReadDev, loadDev, validate, fixPath.                            *)
(*   The directories "/", "/w", "/w/sub" and "/h" (HOME) exist.  What is   *)
(*   at "/w/a", "/w/sub/a" and "/h/a" varies: nothing, a directory, a      *)
(*   regular file, or something os.Stat may not inspect.  The manifest     *)
(*   lies at "/w/cnd.yml" or at "/w/sub/cnd.yml".                          *)
(***************************************************************************)
ErrReadManifest == "open: no such file or directory"
ErrYaml == "yaml: unmarshal errors"
ErrSourceMissing == "Source mount folder %s does not exists"
ErrNotDirectory == "Source mount folder is not a directory"
ErrNameEmpty == "Swap deployment name cannot be empty"
\* not a return value: the run-time panic of a nil pointer dereference
Panic == "panic: invalid memory address or nil pointer dereference"

HOME == Path(TRUE, <<"h">>)
Dirs == { Path(TRUE, <<>>), Path(TRUE, <<"w">>), Path(TRUE, <<"w", "sub">>), HOME }
ProbePaths ==
  { Path(TRUE, <<"w", "a">>), Path(TRUE, <<"w", "sub", "a">>), Path(TRUE, <<"h", "a">>) }
\* what os.Stat finds: an ENOENT error, a directory, a regular file, or
\* another error (EACCES, ENOTDIR, ELOOP)
StatKinds == { "ErrNotExist", "dir", "file", "ErrPermission" }

\* results of os.Getwd for ReadDev: "/w", "/w/sub"
DevWorkDirs == { Path(TRUE, <<"w">>), Path(TRUE, <<"w", "sub">>) }
\* devPath arguments: "cnd.yml", "sub/cnd.yml", "/w/sub/cnd.yml"
DevPaths ==
  { Path(FALSE, <<"cnd.yml">>), Path(FALSE, <<"sub", "cnd.yml">>),
    Path(TRUE, <<"w", "sub", "cnd.yml">>) }
ManifestPlaces ==
  { Path(TRUE, <<"w", "cnd.yml">>), Path(TRUE, <<"w", "sub", "cnd.yml">>) }
\* mount.source as written in a manifest: "a", "/w/a", "~/a"
ManifestSources ==
  { Path(FALSE, <<"a">>), Path(TRUE, <<"w", "a">>), Path(FALSE, <<"~", "a">>) }

\* the file a path names in the working directory wd
Absolute(p, wd) == IF p.abs THEN Clean(p) ELSE Clean(Path(TRUE, wd.segs \o p.segs))

\* os.Stat(p) in the working directory wd
Stat(fs, p, wd) ==
  IF p = EmptyPath THEN "ErrNotExist"
  ELSE LET q == Absolute(p, wd)
       IN  IF q \in DOMAIN fs THEN fs[q]
           ELSE IF q \in Dirs THEN "dir" ELSE "ErrNotExist"

\* path.Dir
Dir(p) ==
  IF p.segs = <<>> THEN Clean(p)
  ELSE Clean(Path(p.abs, SubSeq(p.segs, 1, Len(p.segs) - 1)))

\* the YAML text of a manifest, as the keys that are present
ManifestDoc(source, name, container) ==
  [wellFormed |-> TRUE, source |-> source, name |-> name, container |-> container]
BadManifestDoc == [wellFormed |-> FALSE, source |-> <<>>, name |-> <<>>, container |-> <<>>]
ManifestDocs ==
  {BadManifestDoc} \cup
  { ManifestDoc(src, nm, <<>>) :
      src \in {<<>>} \cup { <<s>> : s \in ManifestSources },
      nm \in {<<>>} \cup { <<n>> : n \in Names } }

\* strings.HasPrefix(source, "~/")
HasHomePrefix(p) == ~p.abs /\ Len(p.segs) >= 2 /\ p.segs[1] = "~"

loadDev(b) ==
  IF ~b.wellFormed THEN [dev |-> <<>>, err |-> ErrYaml]
  ELSE LET source == IF b.source = <<>> THEN Path(FALSE, <<".">>) ELSE b.source[1]
           name == IF b.name = <<>> THEN <<>> ELSE b.name[1]
           container == IF b.container = <<>> THEN <<>> ELSE b.container[1]
           expanded == IF HasHomePrefix(source)
                         THEN Join(HOME, Path(FALSE, Tail(source.segs)))
                         ELSE source
       IN  [dev |-> <<Dev(name, container, expanded)>>, err |-> ErrNil]

\* (dev *Dev) validate: file is nil when os.Stat fails, and is dereferenced
\* unless the failure is ENOENT
validate(dev, fs, wd) ==
  LET st == Stat(fs, dev.Mount.Source, wd)
  IN  IF st = "ErrNotExist" THEN ErrSourceMissing
      ELSE IF st = "ErrPermission" THEN Panic
      ELSE IF st # "dir" THEN ErrNotDirectory
      ELSE IF dev.Swap.Deployment.Name = <<>> THEN ErrNameEmpty
      ELSE ErrNil

\* (dev *Dev) fixPath
Dev_fixPath(dev, originalPath, wd) ==
  IF ~IsAbs(dev.Mount.Source)
    THEN IF IsAbs(originalPath)
           THEN [dev EXCEPT !.Mount.Source = Join(Dir(originalPath), @)]
           ELSE [dev EXCEPT !.Mount.Source = Join(Join(wd, Dir(originalPath)), @)]
    ELSE dev

\* ReadDev: what loadDev made, what validate said (<<>> when not reached),
\* and the Dev and error returned
ReadResult(loaded, verdict, dev, err) ==
  [loaded |-> loaded, verdict |-> verdict, dev |-> dev, err |-> err]

ReadDevCall(m, fs, devPath, wd) ==
  IF Absolute(devPath, wd) # m.at
    THEN ReadResult(<<>>, <<>>, <<>>, ErrReadManifest)
  ELSE LET l == loadDev(m.doc)
       IN  IF l.err # ErrNil THEN ReadResult(<<>>, <<>>, <<>>, l.err)
           ELSE LET v == validate(l.dev[1], fs, wd)
                IN  IF v # ErrNil THEN ReadResult(l.dev, <<v>>, <<>>, v)
                    ELSE ReadResult(l.dev, <<v>>,
                                    <<Dev_fixPath(l.dev[1], devPath, wd)>>, ErrNil)

(***************************************************************************)
(* State.                                                                  *)
(*   stFile  the state file at stPath                                      *)
(*   last    the call made last: its arguments, what it returned, and      *)
(*           pre, the state file as it was when the call began             *)
(*   inv     the concurrent invocations: where each stands (idle, or       *)
(*           loaded: between its load and the rest of its call), the call  *)
(*           it makes, the Storage it loaded, the error it returned, and   *)
(*           the number of saves made when it loaded and when it saved     *)
(*   calls   the number of calls the invocations have begun                *)
(*   saves   the number of saves made to the file                          *)
(*   granted for each key, the non-empty handles Insert has returned       *)
(*           success for since a Stop or Delete of the key last saved      *)
(*   keyIn, keyOut   two (namespace, name, container) triples and the      *)
(*           keys getFullName makes of them                                *)
(*   fsys    what os.Stat finds at each of ProbePaths                      *)
(*   manifest   the manifest file: where it lies and its text              *)
(*   rd      the ReadDev call made last: its arguments and its result      *)
(***************************************************************************)
VARIABLES stFile, last, inv, calls, saves, granted, keyIn, keyOut,
          fsys, manifest, rd

vars == <<stFile, last, inv, calls, saves, granted, keyIn, keyOut,
          fsys, manifest, rd>>
seqVars == <<stFile, last>>
raceVars == <<inv, calls, saves, granted>>
keyVars == <<keyIn, keyOut>>
devVars == <<fsys, manifest, rd>>

\* the record a loadable file holds at key, as <<record>>, or <<>>
RecordAt(file, key) ==
  LET l == load(file)
  IN  IF l.err = ErrNil /\ key \in DOMAIN l.s.Services
        THEN <<l.s.Services[key]>> ELSE <<>>

NoDev == Dev(<<>>, <<>>, EmptyPath)

Call(op, namespace, dev, host, wd, err, svc, all, pre) ==
  [op |-> op, namespace |-> namespace, dev |-> dev, host |-> host, wd |-> wd,
   err |-> err, svc |-> svc, all |-> all, pre |-> pre]

NoCall == Call("none", <<>>, NoDev, <<>>, NoDir, ErrNil, <<>>, <<>>, NoFile)

Procs == {1, 2}
Keys == { getFullName(n, dev) : n \in Namespaces, dev \in KeyDevs }

Invocation(pc, op, namespace, dev, host, wd, s, err, seen, savedAt) ==
  [pc |-> pc, op |-> op, namespace |-> namespace, dev |-> dev, host |-> host,
   wd |-> wd, s |-> s, err |-> err, seen |-> seen, savedAt |-> savedAt]

Idle ==
  Invocation("idle", "none", <<>>, NoDev, <<>>, NoDir,
             Storage(stPath, version, EmptyMap), ErrNil, 0, 0)

RaceInit ==
  /\ inv = [p \in Procs |-> Idle]
  /\ calls = 0
  /\ saves = 0
  /\ granted = [k \in Keys |-> {}]

KeyInit ==
  /\ keyIn = <<>>
  /\ keyOut = <<>>

Manifest(at, doc) == [at |-> at, doc |-> doc]
Reading(op, devPath, wd, res) == [op |-> op, devPath |-> devPath, wd |-> wd, res |-> res]
NoRead == Reading("none", EmptyPath, NoDir, ReadResult(<<>>, <<>>, <<>>, ErrNil))

\* no manifest is read: nothing at the probe paths, an empty manifest
DevIdle ==
  /\ fsys = [p \in ProbePaths |-> "ErrNotExist"]
  /\ manifest = Manifest(Path(TRUE, <<"w", "cnd.yml">>), ManifestDoc(<<>>, <<>>, <<>>))
  /\ rd = NoRead

Init ==
  /\ stFile = NoFile
  /\ last = NoCall
  /\ RaceInit
  /\ KeyInit
  /\ DevIdle

Insert(namespace, dev, host, wd) ==
  LET r == InsertCall(stFile, namespace, dev, host, wd)
  IN  /\ stFile' = r.file
      /\ last' = Call("Insert", namespace, dev, host, wd, r.err, <<>>, <<>>, stFile)
      /\ UNCHANGED <<raceVars, keyVars, devVars>>

Get(namespace, dev) ==
  LET r == GetCall(stFile, namespace, dev)
  IN  /\ stFile' = stFile
      /\ last' = Call("Get", namespace, dev, <<>>, NoDir, r.err, r.svc, <<>>, stFile)
      /\ UNCHANGED <<raceVars, keyVars, devVars>>

Stop(namespace, dev) ==
  LET r == StopCall(stFile, namespace, dev)
  IN  /\ stFile' = r.file
      /\ last' = Call("Stop", namespace, dev, <<>>, NoDir, r.err, <<>>, <<>>, stFile)
      /\ UNCHANGED <<raceVars, keyVars, devVars>>

Delete(namespace, dev) ==
  LET r == DeleteCall(stFile, namespace, dev)
  IN  /\ stFile' = r.file
      /\ last' = Call("Delete", namespace, dev, <<>>, NoDir, r.err, <<>>, <<>>, stFile)
      /\ UNCHANGED <<raceVars, keyVars, devVars>>

All ==
  /\ stFile' = stFile
  /\ last' = Call("All", <<>>, NoDev, <<>>, NoDir, ErrNil, <<>>, AllCall(stFile), stFile)
  /\ UNCHANGED <<raceVars, keyVars, devVars>>

\* the environment: the file is damaged, its mode changed, or it is removed
FileCorrupted ==
  /\ stFile.exists
  /\ stFile' = [stFile EXCEPT !.bytes = Garbage]
  /\ last' = NoCall
  /\ UNCHANGED <<raceVars, keyVars, devVars>>

FileModeChanged ==
  /\ stFile.exists
  /\ stFile' = [stFile EXCEPT !.readable = ~stFile.readable]
  /\ last' = NoCall
  /\ UNCHANGED <<raceVars, keyVars, devVars>>

FileRemoved ==
  /\ stFile.exists
  /\ stFile' = NoFile
  /\ last' = NoCall
  /\ UNCHANGED <<raceVars, keyVars, devVars>>

Next ==
  \/ \E n \in Namespaces, dev \in Devs, host \in Hosts, wd \in WorkDirs :
       Insert(n, dev, host, wd)
  \/ \E n \in Namespaces, dev \in KeyDevs : Get(n, dev)
  \/ \E n \in Namespaces, dev \in KeyDevs : Stop(n, dev)
  \/ \E n \in Namespaces, dev \in KeyDevs : Delete(n, dev)
  \/ All
  \/ FileCorrupted
  \/ FileModeChanged
  \/ FileRemoved

Spec == Init /\ [][Next]_vars

(***************************************************************************)
(* The operations on a state file that another release of the tool left   *)
(* behind (SpecUpgrade): a well-formed file whose version key is not the   *)
(* version of this release.                                                *)
(***************************************************************************)
OtherVersions == { "0.9" }

OtherReleaseFiles ==
  { [exists |-> TRUE, readable |-> TRUE,
     bytes |-> [wellFormed |-> TRUE, version |-> <<v>>,
                services |-> Opt(m # EmptyMap,
                                 [k \in DOMAIN m |-> MarshalService(m[k])])]] :
      v \in OtherVersions,
      m \in {EmptyMap} \cup
            { MapSet(EmptyMap, getFullName(n, dev), newService(dev.Mount.Source, h, wd)) :
                n \in Namespaces, dev \in Devs, h \in Hosts, wd \in WorkDirs } }

UpgradeInit ==
  /\ stFile \in OtherReleaseFiles
  /\ last = NoCall
  /\ RaceInit
  /\ KeyInit
  /\ DevIdle

SpecUpgrade == UpgradeInit /\ [][Next]_vars

(***************************************************************************)
(* Concurrent invocations (SpecRace): independent processes run Insert,    *)
(* Stop and Delete on the same file.  A call reads the file in load and    *)
(* writes it in save; nothing is held in between, so the steps of two      *)
(* calls interleave: Begin is the call up to the end of its load, Finish   *)
(* the rest.                                                               *)
(***************************************************************************)
\* the specs the concurrent invocations use: an absolute source, "/w/a"
RaceDevs == { Dev(nm, c, Path(TRUE, <<"w", "a">>)) : nm \in Names, c \in Containers }
RaceDir == Path(TRUE, <<"w">>)

\* mutant: the rest of the call works on the file as it is now, as if the
\* load had been made again under a lock
FinishCall_Reload(file, c) ==
  LET s == load(file).s
  IN  CASE c.op = "Insert" -> InsertBody(s, c.namespace, c.dev, c.host, c.wd)
        [] c.op = "Stop" -> StopBody(s, c.namespace, c.dev)
        [] OTHER -> DeleteBody(s, c.namespace, c.dev)

\* the rest of a call after its load returned c.s
FinishCall(file, c) ==
  CASE c.op = "Insert" -> InsertBody(c.s, c.namespace, c.dev, c.host, c.wd)
    [] c.op = "Stop" -> StopBody(c.s, c.namespace, c.dev)
    [] OTHER -> DeleteBody(c.s, c.namespace, c.dev)

Begin(p, op, namespace, dev, host) ==
  /\ inv[p].pc = "idle"
  /\ calls < MaxCalls
  /\ LET l == load(stFile)
     IN  inv' = [inv EXCEPT ![p] =
                   Invocation(IF l.err = ErrNil THEN "loaded" ELSE "idle",
                              op, namespace, dev, host, RaceDir, l.s, l.err,
                              saves, 0)]
  /\ calls' = calls + 1
  /\ UNCHANGED <<stFile, saves, granted, last, keyVars, devVars>>

Finish(p) ==
  /\ inv[p].pc = "loaded"
  /\ LET c == inv[p]
         o == FinishCall(stFile, c)
         key == getFullName(c.namespace, c.dev)
         n == IF o.write THEN saves + 1 ELSE saves
     IN  /\ stFile' = Written(o, stFile)
         /\ saves' = n
         /\ inv' = [inv EXCEPT ![p].pc = "idle", ![p].err = o.err,
                               ![p].savedAt = IF o.write THEN n ELSE 0]
         /\ granted' =
              IF c.op = "Insert"
                THEN IF o.err = ErrNil /\ c.host # <<>>
                       THEN [granted EXCEPT ![key] = @ \cup {c.host}]
                       ELSE granted
                ELSE IF o.write THEN [granted EXCEPT ![key] = {}]
                                ELSE granted
  /\ UNCHANGED <<calls, last, keyVars, devVars>>

RaceNext ==
  \/ \E p \in Procs, n \in Namespaces, dev \in RaceDevs, host \in Hosts :
       Begin(p, "Insert", n, dev, host)
  \/ \E p \in Procs, n \in Namespaces, dev \in RaceDevs :
       Begin(p, "Stop", n, dev, <<>>)
  \/ \E p \in Procs, n \in Namespaces, dev \in RaceDevs :
       Begin(p, "Delete", n, dev, <<>>)
  \/ \E p \in Procs : Finish(p)

SpecRace == Init /\ [][RaceNext]_vars

(***************************************************************************)
(* getFullName on its own (SpecKey): two triples are drawn and their keys  *)
(* computed.                                                               *)
(***************************************************************************)
Alphabet == {"a", "/"}
Components == UNION { [1..n -> Alphabet] : n \in 0..MaxLen }
Triples == Components \X Components \X Components

KeyPairInit ==
  /\ stFile = NoFile
  /\ last = NoCall
  /\ RaceInit
  /\ keyIn \in Triples \X Triples
  /\ keyOut = <<>>
  /\ DevIdle

FullNameOf(triple) ==
  getFullName(triple[1], Dev(triple[2], triple[3], EmptyPath))

ComputeKeys ==
  /\ keyOut = <<>>
  /\ keyOut' = <<FullNameOf(keyIn[1]), FullNameOf(keyIn[2])>>
  /\ UNCHANGED <<keyIn, seqVars, raceVars, devVars>>

KeyNext == ComputeKeys

SpecKey == KeyPairInit /\ [][KeyNext]_vars

(***************************************************************************)
(* Reading a manifest (SpecDev): ReadDev is called with some path, in some *)
(* working directory, on some manifest and some file system.               *)
(***************************************************************************)
DevInit ==
  /\ stFile = NoFile
  /\ last = NoCall
  /\ RaceInit
  /\ KeyInit
  /\ fsys \in [ProbePaths -> StatKinds]
  /\ manifest \in { Manifest(at, doc) : at \in ManifestPlaces, doc \in ManifestDocs }
  /\ rd = NoRead

ReadDev(devPath, wd) ==
  /\ rd' = Reading("ReadDev", devPath, wd, ReadDevCall(manifest, fsys, devPath, wd))
  /\ UNCHANGED <<fsys, manifest, seqVars, raceVars, keyVars>>

DevNext == \E devPath \in DevPaths, wd \in DevWorkDirs : ReadDev(devPath, wd)

SpecDev == DevInit /\ [][DevNext]_vars

(***************************************************************************)
(* Properties of the operations run one after the other (Spec).            *)
(***************************************************************************)
KeyOf(c) == getFullName(c.namespace, c.dev)
\* the record the key of call c held when the call began
Before(c) == RecordAt(c.pre, KeyOf(c))
Active(rec) == rec # <<>> /\ rec[1].Syncthing # <<>>
Mutating == {"Insert", "Stop", "Delete"}

\* C1: when the record of the key is active with handle h1, Insert with a
\* handle h2 # h1 returns ErrAlreadyRunning and the record of the key is the
\* one it was before the call.
C1_ConflictRejected ==
  (last.op = "Insert" /\ Active(Before(last))
     /\ last.host # Before(last)[1].Syncthing)
  => /\ last.err = ErrAlreadyRunning
     /\ RecordAt(stFile, KeyOf(last)) = Before(last)
     /\ stFile = last.pre

\* C1 witness: an Insert with another non-empty handle was rejected
C1_Witness ==
  /\ last.op = "Insert" /\ Active(Before(last))
  /\ last.host # <<>> /\ last.host # Before(last)[1].Syncthing
  /\ last.err = ErrAlreadyRunning

\* the absolute path mount.source stands for in the working directory wd
Resolved(source, wd) ==
  IF source.abs THEN source ELSE Clean(Path(TRUE, wd.segs \o source.segs))

\* C3: after an Insert(n,s,h) that returned success, Get(n,s) succeeds and
\* returns the absolute folder s.mount.source resolves to, and the handle h.
C3_InsertThenGet ==
  (last.op = "Insert" /\ last.err = ErrNil)
  => LET g == GetCall(stFile, last.namespace, last.dev)
         folder == Resolved(last.dev.Mount.Source, last.wd)
     IN  /\ g.err = ErrNil
         /\ g.svc = <<Service(folder, last.host)>>
         /\ IsAbs(g.svc[1].Folder)

\* C3 witness: a successful Insert of a relative source with a handle
C3_Witness ==
  /\ last.op = "Insert" /\ last.err = ErrNil
  /\ ~IsAbs(last.dev.Mount.Source) /\ last.host # <<>>
  /\ GetCall(stFile, last.namespace, last.dev).err = ErrNil

\* C4: Insert called again with the same arguments in the same working
\* directory returns what the first call returned (success after success)
\* and leaves the state file as the first call left it.
C4_InsertIdempotent ==
  last.op = "Insert"
  => InsertCall(stFile, last.namespace, last.dev, last.host, last.wd)
       = Result(stFile, last.err)

\* C4 witness: a first Insert that succeeded and wrote a new active record
C4_Witness ==
  /\ last.op = "Insert" /\ last.err = ErrNil /\ last.host # <<>>
  /\ Before(last) = <<>>
  /\ RecordAt(stFile, KeyOf(last)) # <<>>

\* C5: Stop on an active record succeeds, keeps the record with its folder
\* and an empty handle, and Get then returns that folder and the empty handle.
C5_StopClearsHandle ==
  (last.op = "Stop" /\ Active(Before(last)))
  => LET stopped == <<Service(Before(last)[1].Folder, <<>>)>>
     IN  /\ last.err = ErrNil
         /\ RecordAt(stFile, KeyOf(last)) = stopped
         /\ GetCall(stFile, last.namespace, last.dev)
              = [svc |-> stopped, err |-> ErrNil]

\* C5 witness: a Stop that found the record active
C5_Witness ==
  /\ last.op = "Stop" /\ Active(Before(last)) /\ last.err = ErrNil
  /\ Before(last)[1].Folder # EmptyPath

\* C6: Delete on a registry that loads, whether the record is active,
\* stopped or absent, returns success and Get then fails with not-found.
C6_DeleteRemoves ==
  (last.op = "Delete" /\ load(last.pre).err = ErrNil)
  => /\ last.err = ErrNil
     /\ GetCall(stFile, last.namespace, last.dev)
          = [svc |-> <<>>, err |-> ErrNotFound]

\* C6 witness: a Delete of an active record
C6_Witness ==
  /\ last.op = "Delete" /\ Active(Before(last)) /\ last.err = ErrNil

\* the specs that differ from dev only in their container
OtherDevs(dev) ==
  { Dev(dev.Swap.Deployment.Name, c, dev.Mount.Source) :
      c \in Containers \ {dev.Swap.Deployment.Container} }

\* what a record can be: none, or any folder with any handle
Records ==
  {<<>>} \cup { <<newService(src, h, wd)>> :
                  src \in Sources, h \in Hosts, wd \in WorkDirs }

\* a loadable file with the record at key replaced by rec; another file as it is
FileWith(file, key, rec) ==
  LET l == load(file)
  IN  IF l.err # ErrNil THEN file
      ELSE save([l.s EXCEPT !.Services =
                   IF rec = <<>> THEN MapDelete(@, key) ELSE MapSet(@, key, rec[1])],
                file)

\* a call made again on another file: the error it returns and what Get
\* returns for its spec afterwards
Replay(file, c) ==
  LET r == CASE c.op = "Insert" ->
                  InsertCall(file, c.namespace, c.dev, c.host, c.wd)
             [] c.op = "Stop" -> StopCall(file, c.namespace, c.dev)
             [] OTHER -> DeleteCall(file, c.namespace, c.dev)
  IN  [err |-> r.err, got |-> GetCall(r.file, c.namespace, c.dev)]

\* C7: an Insert, Stop or Delete for one container leaves what Get returns
\* for the spec of every other container as it was, and returns the same
\* error and leaves the same record at its own key whatever the other
\* container's record is.
C7_IndependentLifecycles ==
  last.op \in Mutating =>
    \A other \in OtherDevs(last.dev) :
      /\ GetCall(stFile, last.namespace, other)
           = GetCall(last.pre, last.namespace, other)
      /\ \A rec \in Records :
           Replay(FileWith(last.pre, getFullName(last.namespace, other), rec),
                  last)
             = [err |-> last.err,
                got |-> GetCall(stFile, last.namespace, last.dev)]

\* C7 witness: a call changed its own record while the other container's
\* record is active
C7_Witness ==
  /\ last.op \in Mutating /\ last.err = ErrNil
  /\ RecordAt(stFile, KeyOf(last)) # Before(last)
  /\ \E other \in OtherDevs(last.dev) :
       Active(RecordAt(stFile, getFullName(last.namespace, other)))

\* what the call c hands to save
SavedBy(c) ==
  LET s == load(c.pre).s
  IN  CASE c.op = "Insert" -> InsertBody(s, c.namespace, c.dev, c.host, c.wd)
        [] c.op = "Stop" -> StopBody(s, c.namespace, c.dev)
        [] OTHER -> DeleteBody(s, c.namespace, c.dev)

\* C10: whenever Insert, Stop or Delete saves a registry, loading the file
\* it wrote succeeds and yields that registry: the same version and the
\* same records under the same keys.
C10_SaveLoadRoundTrip ==
  (last.op \in Mutating /\ load(last.pre).err = ErrNil /\ SavedBy(last).write)
  => load(stFile) = [s |-> SavedBy(last).s, err |-> ErrNil]

\* C10 witness: the file written last holds a stopped record, written
\* without a syncthing key, and loads with the empty handle
C10_Witness ==
  /\ last.op = "Stop" /\ Active(Before(last)) /\ last.err = ErrNil
  /\ stFile.bytes.services # <<>>
  /\ stFile.bytes.services[1][KeyOf(last)].syncthing = <<>>
  /\ RecordAt(stFile, KeyOf(last)) = <<Service(Before(last)[1].Folder, <<>>)>>

(***************************************************************************)
(* Properties of concurrent invocations (SpecRace).                        *)
(***************************************************************************)
\* C2: for every interleaving, two Insert calls on one key with different
\* non-empty handles do not both return success unless a Stop or Delete of
\* the key saved between them.
C2_AtMostOneActive ==
  \A k \in Keys : Cardinality(granted[k]) <= 1

\* q loaded the file before p saved it, and saved after p: q's is the last save
StaleAfter(p, q) ==
  /\ p # q
  /\ inv[p].pc = "idle" /\ inv[q].pc = "idle"
  /\ inv[p].savedAt > 0
  /\ inv[q].seen < inv[p].savedAt
  /\ inv[p].savedAt < inv[q].savedAt
  /\ inv[q].savedAt = saves

\* the record a loaded Storage holds at key, as <<record>>, or <<>>
Held(s, key) == IF key \in DOMAIN s.Services THEN <<s.Services[key]>> ELSE <<>>

\* C9: when an Insert of p saved its record and a call of q on another key,
\* which had loaded the file before, saves after it, the file holds at p's
\* key what q had loaded: the record p returned success for is lost.
C9_StaleSaveLosesUpdate ==
  \A p, q \in Procs :
    (/\ StaleAfter(p, q)
     /\ inv[p].op = "Insert" /\ inv[p].err = ErrNil
     /\ KeyOf(inv[p]) # KeyOf(inv[q]))
    => RecordAt(stFile, KeyOf(inv[p])) = Held(inv[q].s, KeyOf(inv[p]))

\* C9 witness: two Inserts on different keys both returned success, no other
\* call was made, and the file holds the record of only one of them
C9_Witness ==
  \E p, q \in Procs :
    /\ StaleAfter(p, q)
    /\ calls = 2
    /\ inv[p].op = "Insert" /\ inv[p].err = ErrNil /\ inv[p].host # <<>>
    /\ inv[q].op = "Insert" /\ inv[q].err = ErrNil /\ inv[q].host # <<>>
    /\ KeyOf(inv[p]) # KeyOf(inv[q])
    /\ RecordAt(stFile, KeyOf(inv[p])) = <<>>
    /\ RecordAt(stFile, KeyOf(inv[q])) = <<Service(inv[q].dev.Mount.Source, inv[q].host)>>

(***************************************************************************)
(* Properties of getFullName (SpecKey).                                    *)
(***************************************************************************)
\* C8: two triples (namespace, deployment name, container) that differ in a
\* component, empty components and components with "/" included, have
\* different keys.
C8_KeyInjective ==
  (keyOut # <<>> /\ keyIn[1] # keyIn[2]) => keyOut[1] # keyOut[2]

\* C12: when no state file exists, load returns version "1.0" with an empty
\* map and no error; Get then fails with not-found, All returns the empty
\* map, and Insert succeeds and leaves a file holding exactly its record.
C12_MissingFileIsEmpty ==
  (last.op # "none" /\ ~last.pre.exists)
  => /\ load(last.pre) = [s |-> Storage(stPath, version, EmptyMap), err |-> ErrNil]
     /\ last.op = "Get" => (last.err = ErrNotFound /\ last.svc = <<>>)
     /\ last.op = "All" => last.all = <<EmptyMap>>
     /\ last.op = "Insert" =>
          /\ last.err = ErrNil
          /\ stFile.exists
          /\ load(stFile) =
               [s |-> Storage(stPath, version,
                              MapSet(EmptyMap, KeyOf(last),
                                     Service(Resolved(last.dev.Mount.Source, last.wd),
                                             last.host))),
                err |-> ErrNil]

\* C12 witness: an Insert made when no state file existed created it
C12_Witness ==
  /\ last.op = "Insert" /\ ~last.pre.exists
  /\ last.err = ErrNil /\ stFile.exists
  /\ DOMAIN load(stFile).s.Services = {KeyOf(last)}

\* C13: All returns every record the file holds (the records Get returns,
\* key by key) when the file loads, and an empty result without an error
\* when the file is unreadable or malformed; Insert, Get, Stop and Delete
\* return the load error in that case.
C13_AllHidesLoadFailure ==
  /\ (last.op = "All" /\ load(last.pre).err = ErrNil)
     => /\ Len(last.all) = 1
        /\ DOMAIN last.all[1] \subseteq Keys
        /\ \A n \in Namespaces, dev \in KeyDevs :
             LET k == getFullName(n, dev)
             IN  GetCall(last.pre, n, dev).svc
                   = IF k \in DOMAIN last.all[1] THEN <<last.all[1][k]>> ELSE <<>>
  /\ (last.op = "All" /\ load(last.pre).err # ErrNil)
     => (last.all = <<>> /\ last.err = ErrNil)
  /\ (last.op \in Mutating \cup {"Get"} /\ load(last.pre).err # ErrNil)
     => last.err \in {ErrRead, ErrUnmarshal}

\* C13 witness: All on a malformed file returned the empty result
C13_Witness ==
  /\ last.op = "All" /\ last.pre.exists /\ last.pre.readable
  /\ ~last.pre.bytes.wellFormed
  /\ last.all = <<>> /\ last.err = ErrNil

\* the record Insert was asked to store
Requested(c) == <<Service(Resolved(c.dev.Mount.Source, c.wd), c.host)>>

\* C15 as stated: Insert returns ErrAlreadyRunning only when the record of
\* the key is active with a handle other than the requested one; in every
\* other case but the identical record (also an active record with the
\* requested handle and another folder) it stores the requested record,
\* saves and succeeds.
C15_RejectOnlyOtherHandle ==
  (last.op = "Insert" /\ load(last.pre).err = ErrNil)
  => LET conflict == Active(Before(last))
                       /\ Before(last)[1].Syncthing # last.host
     IN  /\ last.err = ErrAlreadyRunning => conflict
         /\ (~conflict /\ Before(last) # Requested(last))
            => /\ last.err = ErrNil
               /\ RecordAt(stFile, KeyOf(last)) = Requested(last)

\* C15 amended: Insert returns ErrAlreadyRunning exactly when the record of
\* the key is active and is not the requested record, whichever of folder
\* and handle differs, and then leaves the file as it was; when the record is
\* absent or stopped and not the requested one, Insert stores the requested
\* record, saves and succeeds.
C15_RejectActiveUnlessIdentical ==
  (last.op = "Insert" /\ load(last.pre).err = ErrNil)
  => LET conflict == Active(Before(last)) /\ Before(last) # Requested(last)
     IN  /\ last.err = ErrAlreadyRunning <=> conflict
         /\ conflict => stFile = last.pre
         /\ (~Active(Before(last)) /\ Before(last) # Requested(last))
            => /\ last.err = ErrNil
               /\ SavedBy(last).write
               /\ RecordAt(stFile, KeyOf(last)) = Requested(last)

\* C15 witness: an Insert with the handle of the active record and another
\* folder was rejected
C15_Witness ==
  /\ last.op = "Insert" /\ Active(Before(last))
  /\ Before(last)[1].Syncthing = last.host
  /\ Before(last)[1].Folder # Requested(last)[1].Folder
  /\ last.err = ErrAlreadyRunning
  /\ stFile = last.pre

\* a record that exists with an empty handle
Stopped(rec) == rec # <<>> /\ rec[1].Syncthing = <<>>

\* C16: when the record of the key is stopped, Insert with a non-empty handle
\* and any folder succeeds and the record becomes {resolved folder, handle},
\* which Get then returns; no Delete is needed in between.
C16_StoppedToActive ==
  (last.op = "Insert" /\ Stopped(Before(last)) /\ last.host # <<>>)
  => /\ last.err = ErrNil
     /\ RecordAt(stFile, KeyOf(last)) = Requested(last)
     /\ GetCall(stFile, last.namespace, last.dev)
          = [svc |-> Requested(last), err |-> ErrNil]

\* C16 witness: a stopped record was made active again with another folder
C16_Witness ==
  /\ last.op = "Insert" /\ Stopped(Before(last)) /\ last.host # <<>>
  /\ Before(last)[1].Folder # Requested(last)[1].Folder
  /\ last.err = ErrNil
  /\ Active(RecordAt(stFile, KeyOf(last)))

\* C17: Get, All, Stop on a key without a record and Insert of the record the
\* key already holds make no save and leave the state file as it was, absent
\* when it was absent; that Stop and that Insert return success.
C17_NonMutatingNeverWrite ==
  /\ last.op \in {"Get", "All"} => stFile = last.pre
  /\ (last.op = "Stop" /\ load(last.pre).err = ErrNil /\ Before(last) = <<>>)
     => /\ last.err = ErrNil
        /\ ~SavedBy(last).write
        /\ stFile = last.pre
  /\ (last.op = "Insert" /\ Before(last) = Requested(last))
     => /\ last.err = ErrNil
        /\ ~SavedBy(last).write
        /\ stFile = last.pre

\* C17 witness: a Stop made when no state file existed left none behind
C17_Witness ==
  /\ last.op = "Stop" /\ ~last.pre.exists
  /\ last.err = ErrNil /\ ~stFile.exists

\* C18: when the state file exists and is unreadable or malformed, Insert,
\* Get, Stop and Delete return the read error or the unmarshal error and
\* leave the file as it was.
C18_LoadFailurePropagates ==
  (last.op \in Mutating \cup {"Get"} /\ last.pre.exists
     /\ (~last.pre.readable \/ ~last.pre.bytes.wellFormed))
  => /\ last.err = IF ~last.pre.readable THEN ErrRead ELSE ErrUnmarshal
     /\ last.svc = <<>>
     /\ stFile = last.pre

\* C18 witness: a Delete on an unreadable file returned the read error
C18_Witness ==
  /\ last.op = "Delete" /\ last.pre.exists /\ ~last.pre.readable
  /\ last.err = ErrRead
  /\ stFile = last.pre

\* C20: an operation that finds the record of a key active leaves it with the
\* same folder and handle unless it is a Stop or a Delete of that key; an
\* Insert never changes an active record, and an Insert with an empty handle
\* on an active record is rejected.
C20_ActiveRecordConstant ==
  last.op # "none"
  => /\ \A k \in Keys :
          (Active(RecordAt(last.pre, k))
             /\ RecordAt(stFile, k) # RecordAt(last.pre, k))
          => (last.op \in {"Stop", "Delete"} /\ KeyOf(last) = k)
     /\ (last.op = "Insert" /\ Active(Before(last)) /\ last.host = <<>>)
        => /\ last.err = ErrAlreadyRunning
           /\ RecordAt(stFile, KeyOf(last)) = Before(last)

\* C20 witness: an Insert with an empty handle found the record active and
\* left it active
C20_Witness ==
  /\ last.op = "Insert" /\ last.host = <<>>
  /\ Active(Before(last))
  /\ last.err = ErrAlreadyRunning
  /\ RecordAt(stFile, KeyOf(last)) = Before(last)

(***************************************************************************)
(* Properties of the operations on another release's file (SpecUpgrade).   *)
(***************************************************************************)
\* C11: every save made by Insert, Stop or Delete writes the version "1.0",
\* whatever version the file held when it was loaded.
C11_FixedVersionWritten ==
  (last.op \in Mutating /\ load(last.pre).err = ErrNil /\ SavedBy(last).write)
  => stFile.bytes.version = <<version>>

(***************************************************************************)
(* Properties of reading a manifest (SpecDev).                             *)
(***************************************************************************)
\* C14: a Dev that ReadDev returns without error has a non-empty swap
\* deployment name and a mount.source that is, after fixPath, an absolute
\* path of an existing directory, wherever the manifest lies, whatever the
\* working directory, for a relative and for an absolute source.
C14_ReadDevSourceIsDirectory ==
  (rd.op = "ReadDev" /\ rd.res.err = ErrNil)
  => LET dev == rd.res.dev[1]
     IN  /\ dev.Swap.Deployment.Name # <<>>
         /\ IsAbs(dev.Mount.Source)
         /\ Stat(fsys, dev.Mount.Source, rd.wd) = "dir"

\* C19: validate returns success or one of its three errors for everything
\* os.Stat can find at mount.source and every deployment name: the missing
\* source first, then the source that is not a directory, then the empty
\* name; it never panics.
C19_ValidateTyped ==
  (rd.op = "ReadDev" /\ rd.res.verdict # <<>>)
  => LET dev == rd.res.loaded[1]
         st == Stat(fsys, dev.Mount.Source, rd.wd)
         v == rd.res.verdict[1]
     IN  /\ v \in {ErrNil, ErrSourceMissing, ErrNotDirectory, ErrNameEmpty}
         /\ st = "ErrNotExist" => v = ErrSourceMissing
         /\ st = "file" => v = ErrNotDirectory
         /\ st = "dir" =>
              v = IF dev.Swap.Deployment.Name = <<>> THEN ErrNameEmpty ELSE ErrNil

====
